---- MODULE Spec2Model ----
(***************************************************************************)
(* A model of the OAuth2 device flow of yup-oauth2 (src/src/device.rs):    *)
(* DeviceFlow::token, request_code, wait_for_device_token and poll_token,  *)
(* driven by an authorization server and a clock chosen by the environment.*)
(***************************************************************************)
EXTENDS Integers, Sequences, FiniteSets, TLC

\* ------------------------------------------------------------------ bounds

\* The clock runs from 0 to MaxTime seconds.
MaxTime == 15
\* Poll requests one call of token() may issue in the model.
MaxPolls == 3
\* Calls of token() on the one DeviceFlow.
MaxAttempts == 2
\* The width of i64 in the model, in bits: JsonData::interval ranges over
\* I64Min..I64Max as the i64 of the code does over -2^63..2^63 - 1.
I64Bits == 4
\* Calls of spawn_with_handle.
MaxSpawns == 2
\* Polls that the future f given to spawn_with_handle needs before it is ready.
MaxFSteps == 2

\* ----------------------------------------------------- values of the program

\* Duration::from_secs(5), the step added on slow_down.
SlowDownIncrement == 5

\* unwrap_or(60 * 60): the lifetime of a session whose response has no expires_in.
DefaultExpiresIn == 60 * 60

\* A JSON field that is not in the payload (a string field, a number field).
Absent == "absent"
None == -1

\* The `error` strings the server sends in the model. Only the two exact strings
\* of wait_for_device_token's match guards are retried; the upper-case one differs
\* from "authorization_pending" in case only.
ErrorKinds ==
  {"authorization_pending", "slow_down", "access_denied", "expired_token",
   "AUTHORIZATION_PENDING"}

\* The `error` strings of a refused code request.
CodeErrorKinds == {"invalid_client_id", "slow_down"}

I64Min == -(2 ^ (I64Bits - 1))
I64Max == 2 ^ (I64Bits - 1) - 1

AccessTokens == {"a", "b"}
\* The server issues a device code once: the n-th code it issues is DeviceCode(n).
DeviceCodeNames == <<"d1", "d2", "d3", "d4">>
DeviceCode(n) == DeviceCodeNames[n]
DeviceCodes == {DeviceCode(n) : n \in 1..(MaxAttempts + 1)}
\* `interval` of a code response is an i64: negative values are sent too, and
\* the least i64.
ServerIntervals == {I64Min, -1, 0, 1}
ServerExpiresIn == {None, 3}
TokenExpiresIn == {2}

\* ---------------------------------------------------------------- results

NoToken == [access_token |-> Absent, expires_in |-> None, expires_in_timestamp |-> None]
NoError == [variant |-> "none", error |-> Absent]
NoPollInf == [user_code |-> Absent, verification_url |-> Absent, expires_at |-> None, interval |-> None]

AuthError(kind) == [variant |-> "AuthError", error |-> kind]
HttpError == [variant |-> "HttpError", error |-> Absent]
JSONError == [variant |-> "JSONError", error |-> Absent]

\* Result<Token, Error>
Ok(t) == [tag |-> "Ok", token |-> t, err |-> NoError]
Err(e) == [tag |-> "Err", token |-> NoToken, err |-> e]
NoResult == [tag |-> "None", token |-> NoToken, err |-> NoError]

\* Result<(PollInformation, String), Error>
CodeOk(pi, dc) == [tag |-> "Ok", pollinf |-> pi, device_code |-> dc, err |-> NoError]
CodeErr(e) == [tag |-> "Err", pollinf |-> NoPollInf, device_code |-> Absent, err |-> e]
NoCodeResult == [tag |-> "None", pollinf |-> NoPollInf, device_code |-> Absent, err |-> NoError]

\* No response has arrived.
NoPollBody ==
  [transport |-> FALSE, wellformed |-> FALSE, error |-> Absent, access_token |-> Absent,
   expires_in |-> None]
NoCodeBody ==
  [transport |-> FALSE, wellformed |-> FALSE, error |-> Absent, device_code |-> Absent,
   user_code |-> Absent, verification_uri |-> Absent, expires_in |-> None, interval |-> 0]

\* ------------------------------------------------- what the server answers

\* A response to the poll request: the transport fails, or a body arrives that is
\* not JSON, or a JSON object with or without an `error` and with or without the
\* fields of a Token (with both: the token "a" beside each `error`).
PollResponses ==
  {[transport |-> FALSE, wellformed |-> FALSE, error |-> Absent, access_token |-> Absent, expires_in |-> None],
   [transport |-> TRUE, wellformed |-> FALSE, error |-> Absent, access_token |-> Absent, expires_in |-> None]}
  \cup
  [transport : {TRUE}, wellformed : {TRUE}, error : ErrorKinds \cup {Absent},
   access_token : {Absent}, expires_in : {None}]
  \cup
  [transport : {TRUE}, wellformed : {TRUE}, error : {Absent},
   access_token : AccessTokens, expires_in : TokenExpiresIn]
  \cup
  [transport : {TRUE}, wellformed : {TRUE}, error : ErrorKinds,
   access_token : {"a"}, expires_in : TokenExpiresIn]

\* A response to the code request.
CodeResponses ==
  {[transport |-> FALSE, wellformed |-> FALSE, error |-> Absent, device_code |-> Absent,
    user_code |-> Absent, verification_uri |-> Absent, expires_in |-> None, interval |-> 0],
   [transport |-> TRUE, wellformed |-> FALSE, error |-> Absent, device_code |-> Absent,
    user_code |-> Absent, verification_uri |-> Absent, expires_in |-> None, interval |-> 0]}
  \cup
  [transport : {TRUE}, wellformed : {TRUE}, error : CodeErrorKinds, device_code : {Absent},
   user_code : {Absent}, verification_uri : {Absent}, expires_in : {None}, interval : {0}]
  \cup
  [transport : {TRUE}, wellformed : {TRUE}, error : {Absent}, device_code : DeviceCodes,
   user_code : {"u"}, verification_uri : {"https://x/verify"},
   expires_in : ServerExpiresIn, interval : ServerIntervals]

\* ------------------------------------------------------------ pure functions

\* Token::set_expiry_absolute: the absolute expiry from the relative lifetime.
set_expiry_absolute(t, utcnow) ==
  IF t.expires_in = None THEN t
  ELSE [t EXCEPT !.expires_in_timestamp = utcnow + t.expires_in]

\* i64::abs: the negation of the least i64 overflows. A build with overflow
\* checks panics there; a build without them wraps to the least i64 again.
I64AbsOverflows(x) == x = I64Min
I64Abs(x) == IF x = I64Min THEN I64Min ELSE IF x < 0 THEN -x ELSE x

\* `as u64` of an i64: a negative value is read modulo 2^64.
AsU64(x) == IF x < 0 THEN x + 2 ^ I64Bits ELSE x

\* A variant of the decode that tries the payload T before the `error` field.
AuthErrorOr_DataFirst(wellformed, error, shapedAsT) ==
  IF ~wellformed THEN "JSONError"
  ELSE IF shapedAsT THEN "Data"
  ELSE IF error # Absent THEN "AuthError"
  ELSE "JSONError"

\* serde_json::from_slice::<AuthErrorOr<T>>(..)?.into_result(): a body that is
\* not JSON is a decode error; a JSON object with an `error` field is the
\* AuthError whatever else it holds; otherwise the payload is decoded as T, and
\* a payload that is not shaped as T is a decode error.
AuthErrorOr_into_result(wellformed, error, shapedAsT) ==
  IF ~wellformed THEN "JSONError"
  ELSE IF error # Absent THEN "AuthError"
  ELSE IF ~shapedAsT THEN "JSONError"
  ELSE "Data"

\* poll_token from the response on: `?` on the transport, the decode of
\* AuthErrorOr<Token>, set_expiry_absolute.
poll_token(r, utcnow) ==
  LET decoded == AuthErrorOr_into_result(r.wellformed, r.error, r.access_token # Absent) IN
  IF ~r.transport THEN Err(HttpError)
  ELSE IF decoded = "JSONError" THEN Err(JSONError)
  ELSE IF decoded = "AuthError" THEN Err(AuthError(r.error))
  ELSE Ok(set_expiry_absolute(
            [access_token |-> r.access_token, expires_in |-> r.expires_in,
             expires_in_timestamp |-> None], utcnow))

\* A variant of request_code whose PollInformation carries the device code too.
request_code_LeaksDeviceCode(r, utcnow) ==
  LET decoded == AuthErrorOr_into_result(r.wellformed, r.error, r.device_code # Absent) IN
  IF ~r.transport THEN CodeErr(HttpError)
  ELSE IF decoded = "JSONError" THEN CodeErr(JSONError)
  ELSE IF decoded = "AuthError" THEN CodeErr(AuthError(r.error))
  ELSE LET expires_in == IF r.expires_in = None THEN DefaultExpiresIn ELSE r.expires_in
       IN CodeOk([user_code |-> r.user_code,
                  verification_url |-> r.verification_uri,
                  expires_at |-> utcnow + expires_in,
                  interval |-> AsU64(I64Abs(r.interval)),
                  device_code |-> r.device_code],
                 r.device_code)

\* A variant of request_code that gives every session the default lifetime.
request_code_DefaultLifetime(r, utcnow) ==
  LET decoded == AuthErrorOr_into_result(r.wellformed, r.error, r.device_code # Absent) IN
  IF ~r.transport THEN CodeErr(HttpError)
  ELSE IF decoded = "JSONError" THEN CodeErr(JSONError)
  ELSE IF decoded = "AuthError" THEN CodeErr(AuthError(r.error))
  ELSE CodeOk([user_code |-> r.user_code,
               verification_url |-> r.verification_uri,
               expires_at |-> utcnow + DefaultExpiresIn,
               interval |-> AsU64(I64Abs(r.interval))],
              r.device_code)

\* request_code from the response on: `?` on the transport, the decode of
\* AuthErrorOr<JsonData>, the PollInformation and the device code.
request_code(r, utcnow) ==
  LET decoded == AuthErrorOr_into_result(r.wellformed, r.error, r.device_code # Absent) IN
  IF ~r.transport THEN CodeErr(HttpError)
  ELSE IF decoded = "JSONError" THEN CodeErr(JSONError)
  ELSE IF decoded = "AuthError" THEN CodeErr(AuthError(r.error))
  ELSE LET expires_in == IF r.expires_in = None THEN DefaultExpiresIn ELSE r.expires_in
       IN CodeOk([user_code |-> r.user_code,
                  verification_url |-> r.verification_uri,
                  expires_at |-> utcnow + expires_in,
                  interval |-> AsU64(I64Abs(r.interval))],
                 r.device_code)

\* request_code panics instead of returning: the response decodes to a JsonData
\* whose interval i64::abs cannot negate, in a build with overflow checks.
request_code_panics(r, overflow_checks) ==
  /\ r.transport
  /\ AuthErrorOr_into_result(r.wellformed, r.error, r.device_code # Absent) = "Data"
  /\ I64AbsOverflows(r.interval)
  /\ overflow_checks

\* Variants of the match with one arm changed.
\* access_denied is retried like authorization_pending.
MatchPoll_RetryDenied(iv, res) ==
  IF res.tag = "Ok" THEN [return |-> TRUE, interval |-> iv]
  ELSE IF res.err.variant = "AuthError"
          /\ res.err.error \in {"authorization_pending", "access_denied"}
    THEN [return |-> FALSE, interval |-> iv]
  ELSE IF res.err.variant = "AuthError" /\ res.err.error = "slow_down"
    THEN [return |-> FALSE, interval |-> iv + SlowDownIncrement]
  ELSE [return |-> TRUE, interval |-> iv]

\* The grown interval is clamped to 10 seconds.
MatchPoll_Capped(iv, res) ==
  IF res.tag = "Ok" THEN [return |-> TRUE, interval |-> iv]
  ELSE IF res.err.variant = "AuthError" /\ res.err.error = "authorization_pending"
    THEN [return |-> FALSE, interval |-> iv]
  ELSE IF res.err.variant = "AuthError" /\ res.err.error = "slow_down"
    THEN [return |-> FALSE,
          interval |-> IF iv + SlowDownIncrement > 10 THEN 10 ELSE iv + SlowDownIncrement]
  ELSE [return |-> TRUE, interval |-> iv]

\* authorization_pending backs off like slow_down.
MatchPoll_PendingBacksOff(iv, res) ==
  IF res.tag = "Ok" THEN [return |-> TRUE, interval |-> iv]
  ELSE IF res.err.variant = "AuthError"
          /\ res.err.error \in {"authorization_pending", "slow_down"}
    THEN [return |-> FALSE, interval |-> iv + SlowDownIncrement]
  ELSE [return |-> TRUE, interval |-> iv]

\* A token does not end the loop.
MatchPoll_TokenGoesOn(iv, res) ==
  IF res.tag = "Ok" THEN [return |-> FALSE, interval |-> iv]
  ELSE IF res.err.variant = "AuthError" /\ res.err.error = "authorization_pending"
    THEN [return |-> FALSE, interval |-> iv]
  ELSE IF res.err.variant = "AuthError" /\ res.err.error = "slow_down"
    THEN [return |-> FALSE, interval |-> iv + SlowDownIncrement]
  ELSE [return |-> TRUE, interval |-> iv]

\* The slow_down arm is missing: slow_down falls to the last arm.
MatchPoll_NoSlowDownArm(iv, res) ==
  IF res.tag = "Ok" THEN [return |-> TRUE, interval |-> iv]
  ELSE IF res.err.variant = "AuthError" /\ res.err.error = "authorization_pending"
    THEN [return |-> FALSE, interval |-> iv]
  ELSE [return |-> TRUE, interval |-> iv]

\* slow_down sets the interval to 5 seconds instead of adding them.
MatchPoll_SetsFive(iv, res) ==
  IF res.tag = "Ok" THEN [return |-> TRUE, interval |-> iv]
  ELSE IF res.err.variant = "AuthError" /\ res.err.error = "authorization_pending"
    THEN [return |-> FALSE, interval |-> iv]
  ELSE IF res.err.variant = "AuthError" /\ res.err.error = "slow_down"
    THEN [return |-> FALSE, interval |-> SlowDownIncrement]
  ELSE [return |-> TRUE, interval |-> iv]

\* A variant of MatchPoll that retries after every error and returns a token only.
MatchPoll_RetryAllErrors(iv, res) ==
  IF res.tag = "Ok" THEN [return |-> TRUE, interval |-> iv]
  ELSE IF res.err.variant = "AuthError" /\ res.err.error = "slow_down"
    THEN [return |-> FALSE, interval |-> iv + SlowDownIncrement]
  ELSE [return |-> FALSE, interval |-> iv]

\* The match of wait_for_device_token on the result of one poll: the loop
\* returns that result, or goes on with the interval the arm evaluates to.
MatchPoll(iv, res) ==
  IF res.tag = "Ok" THEN [return |-> TRUE, interval |-> iv]
  ELSE IF res.err.variant = "AuthError" /\ res.err.error = "authorization_pending"
    THEN [return |-> FALSE, interval |-> iv]
  ELSE IF res.err.variant = "AuthError" /\ res.err.error = "slow_down"
    THEN [return |-> FALSE, interval |-> iv + SlowDownIncrement]
  ELSE [return |-> TRUE, interval |-> iv]

\* A poll result the driver retries: an AuthError whose `error` is exactly
\* authorization_pending or slow_down.
IsPending(res) ==
  res.tag = "Err" /\ res.err.variant = "AuthError" /\ res.err.error = "authorization_pending"
IsSlowDown(res) ==
  res.tag = "Err" /\ res.err.variant = "AuthError" /\ res.err.error = "slow_down"
Retryable(res) == IsPending(res) \/ IsSlowDown(res)
TerminalError(res) == res.tag = "Err" /\ ~Retryable(res)

\* The slow_down errors among the results of the polls.
CountSlowDowns(rs) == Cardinality({i \in 1..Len(rs) : IsSlowDown(rs[i])})

\* ------------------------------------------------------------------- state

GOOGLE_DEVICE_CODE_URL == "https://accounts.google.com/o/oauth2/device/code"
GOOGLE_GRANT_TYPE == "http://oauth.net/grant_type/device/1.0"

\* DeviceFlow::new.
new(app_secret) ==
  [app_secret |-> app_secret,
   device_code_url |-> GOOGLE_DEVICE_CODE_URL,
   flow_delegate |-> "DefaultDeviceFlowDelegate",
   grant_type |-> GOOGLE_GRANT_TYPE]

\* No call of token() came before.
NoEarlier == FALSE

VARIABLES
  spawned,      \* the calls of spawn_with_handle: the task, the channel, the handle
  flow,         \* the fields of the DeviceFlow that token() is called on
  earlier,      \* whether the call of token() before this one returned with its
                \* interval grown by slow_down answers
  pc,           \* where token() is: idle, request_code, delay, poll, done, dropped,
                \* panicked
  now,          \* the clock, in seconds
  attempt,      \* calls of token() so far
  pollinf,      \* the PollInformation of this call
  device_code,  \* the device code of this call
  interval,     \* `interval` of wait_for_device_token
  delayStart,   \* when the delay_for of this loop iteration was created (0 when
                \* the loop is not running)
  delayFor,     \* the duration it was created with
  result,       \* what token() returned
  codeRequests, \* code requests sent by this call
  requestAt,    \* when the code request in flight was sent (0 when none is)
  codeBody,     \* the response to this call's code request
  pollBody,     \* the response to the last poll, until the next poll is sent
  issued,       \* device codes the server has issued so far
  codeResult,   \* what request_code returned to this call
  presented,    \* the arguments of this call's present_user_code calls
  polls,        \* the `code` of each poll request of this call
  responses,    \* the result of each poll of this call
  events        \* this call's requests, notifications and waits, in order

vars == <<spawned, flow, earlier, pc, now, attempt, pollinf, device_code, interval, delayStart, delayFor,
          result, codeRequests, requestAt, codeBody, pollBody, issued,
          codeResult, presented, polls, responses, events>>

history == <<codeRequests, requestAt, codeBody, pollBody, issued,
             codeResult, presented, polls, responses, events>>

Init ==
  /\ flow = new("secret")
  /\ earlier = NoEarlier
  /\ spawned = <<>>
  /\ pc = "idle"
  /\ now = 0
  /\ attempt = 0
  /\ pollinf = NoPollInf
  /\ device_code = Absent
  /\ interval = 0
  /\ delayStart = 0
  /\ delayFor = 0
  /\ result = NoResult
  /\ codeRequests = 0
  /\ requestAt = 0
  /\ codeBody = NoCodeBody
  /\ pollBody = NoPollBody
  /\ issued = 0
  /\ codeResult = NoCodeResult
  /\ presented = <<>>
  /\ polls = <<>>
  /\ responses = <<>>
  /\ events = <<>>

\* ----------------------------------------------------------------- actions

\* A second passes. Only a call in flight reads the clock (delay_for, Utc::now),
\* so the clock is advanced while token() is at one of its awaits.
Tick ==
  /\ pc \in {"request_code", "delay", "poll"}
  /\ now < MaxTime
  /\ now' = now + 1
  /\ UNCHANGED <<spawned, flow, earlier, pc, attempt, pollinf, device_code, interval, delayStart, delayFor,
                 result, history>>

\* token() is called and runs to its first await: the code request is sent.
Token ==
  /\ pc \in {"idle", "done", "dropped", "panicked"}
  /\ attempt < MaxAttempts
  /\ attempt' = attempt + 1
  /\ pc' = "request_code"
  /\ pollinf' = NoPollInf
  /\ device_code' = Absent
  /\ interval' = 0
  /\ delayStart' = 0
  /\ delayFor' = 0
  /\ result' = NoResult
  /\ codeRequests' = 1
  /\ requestAt' = now
  /\ codeBody' = NoCodeBody
  /\ pollBody' = NoPollBody
  /\ codeResult' = NoCodeResult
  /\ presented' = <<>>
  /\ polls' = <<>>
  /\ responses' = <<>>
  /\ events' = <<"request_code">>
  /\ earlier' = (result # NoResult /\ CountSlowDowns(responses) > 0)
  /\ UNCHANGED <<spawned, flow, now, issued>>

\* A variant of CodeResponse: a code request that failed in the transport is
\* sent again instead of ending the call.
CodeResponse_RetriesHttpError(r) ==
  /\ pc = "request_code"
  /\ r.device_code \in {Absent, DeviceCode(issued + 1)}
  /\ issued' = IF r.device_code = Absent THEN issued ELSE issued + 1
  /\ codeBody' = r
  /\ requestAt' = 0
  /\ \E overflow_checks \in BOOLEAN :
       IF request_code_panics(r, overflow_checks)
       THEN /\ pc' = "panicked"
            /\ UNCHANGED <<codeResult, result, pollinf, device_code, interval, delayStart,
                           delayFor, presented, events>>
       ELSE LET res == request_code(r, now) IN
            /\ codeResult' = res
            /\ IF res.tag = "Err"
               THEN /\ IF res.err = HttpError
                       THEN /\ pc' = "request_code"
                            /\ UNCHANGED result
                       ELSE /\ pc' = "done"
                            /\ result' = Err(res.err)
                    /\ UNCHANGED <<pollinf, device_code, interval, delayStart, delayFor,
                                   presented, events>>
               ELSE /\ pollinf' = res.pollinf
                    /\ device_code' = res.device_code
                    /\ presented' = Append(presented, res.pollinf)
                    /\ interval' = res.pollinf.interval
                    /\ delayStart' = now
                    /\ delayFor' = res.pollinf.interval
                    /\ events' = events \o <<"present_user_code", "delay_for">>
                    /\ pc' = "delay"
                    /\ UNCHANGED result
  /\ UNCHANGED <<spawned, flow, earlier, now, attempt, codeRequests, pollBody, polls, responses>>

\* A variant of CodeResponse for a flow that remembers across calls that the
\* server asked it to slow down, and starts the next call's interval higher.
CodeResponse_KeepsGrowth(r) ==
  /\ pc = "request_code"
  /\ r.device_code \in {Absent, DeviceCode(issued + 1)}
  /\ issued' = IF r.device_code = Absent THEN issued ELSE issued + 1
  /\ codeBody' = r
  /\ requestAt' = 0
  /\ \E overflow_checks \in BOOLEAN :
       IF request_code_panics(r, overflow_checks)
       THEN /\ pc' = "panicked"
            /\ UNCHANGED <<codeResult, result, pollinf, device_code, interval, delayStart,
                           delayFor, presented, events>>
       ELSE LET res == request_code(r, now)
                Growth == IF earlier THEN SlowDownIncrement ELSE 0 IN
            /\ codeResult' = res
            /\ IF res.tag = "Err"
               THEN /\ pc' = "done"
                    /\ result' = Err(res.err)
                    /\ UNCHANGED <<pollinf, device_code, interval, delayStart, delayFor,
                                   presented, events>>
               ELSE /\ pollinf' = res.pollinf
                    /\ device_code' = res.device_code
                    /\ presented' = Append(presented, res.pollinf)
                    /\ interval' = res.pollinf.interval + Growth
                    /\ delayStart' = now
                    /\ delayFor' = res.pollinf.interval + Growth
                    /\ events' = events \o <<"present_user_code", "delay_for">>
                    /\ pc' = "delay"
                    /\ UNCHANGED result
  /\ UNCHANGED <<spawned, flow, earlier, now, attempt, codeRequests, pollBody, polls, responses>>

\* The code response arrives. On an error token() returns it (`?`); otherwise the
\* delegate is shown the PollInformation and wait_for_device_token runs to its
\* first await, the delay of the session's interval. Whether the build checks
\* overflow is not known to the model: i64::abs of the least i64 takes either
\* outcome, the panic or the wrapped value.
CodeResponse(r) ==
  /\ pc = "request_code"
  /\ r.device_code \in {Absent, DeviceCode(issued + 1)}
  /\ issued' = IF r.device_code = Absent THEN issued ELSE issued + 1
  /\ codeBody' = r
  /\ requestAt' = 0
  /\ \E overflow_checks \in BOOLEAN :
       IF request_code_panics(r, overflow_checks)
       THEN /\ pc' = "panicked"
            /\ UNCHANGED <<codeResult, result, pollinf, device_code, interval, delayStart,
                           delayFor, presented, events>>
       ELSE LET res == request_code(r, now) IN
            /\ codeResult' = res
            /\ IF res.tag = "Err"
               THEN /\ pc' = "done"
                    /\ result' = Err(res.err)
                    /\ UNCHANGED <<pollinf, device_code, interval, delayStart, delayFor,
                                   presented, events>>
               ELSE /\ pollinf' = res.pollinf
                    /\ device_code' = res.device_code
                    /\ presented' = Append(presented, res.pollinf)
                    /\ interval' = res.pollinf.interval
                    /\ delayStart' = now
                    /\ delayFor' = res.pollinf.interval
                    /\ events' = events \o <<"present_user_code", "delay_for">>
                    /\ pc' = "delay"
                    /\ UNCHANGED result
  /\ UNCHANGED <<spawned, flow, earlier, now, attempt, codeRequests, pollBody, polls, responses>>

\* A variant of PollRequest driven by the timer alone: it polls when the
\* delay has elapsed, also while the poll before it is unanswered.
PollRequest_Overlapping ==
  /\ pc \in {"delay", "poll"}
  /\ now >= delayStart + delayFor
  /\ Len(polls) < MaxPolls
  /\ pc' = "poll"
  /\ polls' = Append(polls, device_code)
  /\ events' = Append(events, "poll_token")
  /\ pollBody' = NoPollBody
  /\ UNCHANGED <<spawned, flow, earlier, now, attempt, pollinf, device_code, interval, delayStart, delayFor,
                 result, codeRequests, requestAt, codeBody, issued, codeResult,
                 presented, responses>>

\* A variant of PollRequest for a driver that runs as a detached task and goes
\* on polling after the caller has dropped the future.
PollRequest_AfterDrop ==
  /\ pc \in {"delay", "dropped"}
  /\ device_code # Absent
  /\ now >= delayStart + delayFor
  /\ Len(polls) < MaxPolls
  /\ pc' = "poll"
  /\ polls' = Append(polls, device_code)
  /\ events' = Append(events, "poll_token")
  /\ pollBody' = NoPollBody
  /\ UNCHANGED <<spawned, flow, earlier, now, attempt, pollinf, device_code, interval, delayStart, delayFor,
                 result, codeRequests, requestAt, codeBody, issued, codeResult,
                 presented, responses>>

\* A variant of PollRequest for a driver that compares the clock with
\* expires_at before each poll and gives up by itself once the session expired.
PollRequest_ChecksExpiry ==
  /\ pc = "delay"
  /\ now >= delayStart + delayFor
  /\ Len(polls) < MaxPolls
  /\ IF now >= pollinf.expires_at
     THEN /\ pc' = "done"
          /\ result' = Err(AuthError("expired_token"))
          /\ UNCHANGED <<polls, events, pollBody>>
     ELSE /\ pc' = "poll"
          /\ polls' = Append(polls, device_code)
          /\ events' = Append(events, "poll_token")
          /\ pollBody' = NoPollBody
          /\ UNCHANGED result
  /\ UNCHANGED <<spawned, flow, earlier, now, attempt, pollinf, device_code, interval, delayStart, delayFor,
                 codeRequests, requestAt, codeBody, issued, codeResult,
                 presented, responses>>

\* A variant of PollRequest for a flow that keeps the first device code it
\* obtained and polls with it in every later call.
PollRequest_FirstCode ==
  /\ pc = "delay"
  /\ now >= delayStart + delayFor
  /\ Len(polls) < MaxPolls
  /\ pc' = "poll"
  /\ polls' = Append(polls, DeviceCode(1))
  /\ events' = Append(events, "poll_token")
  /\ pollBody' = NoPollBody
  /\ UNCHANGED <<spawned, flow, earlier, now, attempt, pollinf, device_code, interval, delayStart, delayFor,
                 result, codeRequests, requestAt, codeBody, issued, codeResult,
                 presented, responses>>

\* The delay has elapsed: poll_token sends its request.
PollRequest ==
  /\ pc = "delay"
  /\ now >= delayStart + delayFor
  /\ Len(polls) < MaxPolls
  /\ pc' = "poll"
  /\ polls' = Append(polls, device_code)
  /\ events' = Append(events, "poll_token")
  /\ pollBody' = NoPollBody
  /\ UNCHANGED <<spawned, flow, earlier, now, attempt, pollinf, device_code, interval, delayStart, delayFor,
                 result, codeRequests, requestAt, codeBody, issued, codeResult,
                 presented, responses>>

\* A variant of PollResponse that shows the user code again before each retry.
PollResponse_PresentsAgain(r) ==
  /\ pc = "poll"
  /\ LET res == poll_token(r, now)
         m == MatchPoll(interval, res)
     IN /\ responses' = Append(responses, res)
        /\ pollBody' = r
        /\ interval' = m.interval
        /\ IF m.return
           THEN /\ pc' = "done"
                /\ result' = res
                /\ delayStart' = 0
                /\ delayFor' = 0
                /\ UNCHANGED <<events, presented>>
           ELSE /\ pc' = "delay"
                /\ delayStart' = now
                /\ delayFor' = m.interval
                /\ presented' = Append(presented, pollinf)
                /\ events' = events \o <<"present_user_code", "delay_for">>
                /\ UNCHANGED result
  /\ UNCHANGED <<spawned, flow, earlier, now, attempt, pollinf, device_code, codeRequests, requestAt, codeBody,
                 issued, codeResult, polls>>

\* A variant of PollResponse whose delay is always pollinf.interval.
PollResponse_DelaysInitialInterval(r) ==
  /\ pc = "poll"
  /\ LET res == poll_token(r, now)
         m == MatchPoll(interval, res)
     IN /\ responses' = Append(responses, res)
        /\ pollBody' = r
        /\ interval' = m.interval
        /\ IF m.return
           THEN /\ pc' = "done"
                /\ result' = res
                /\ delayStart' = 0
                /\ delayFor' = 0
                /\ UNCHANGED events
           ELSE /\ pc' = "delay"
                /\ delayStart' = now
                /\ delayFor' = pollinf.interval
                /\ events' = Append(events, "delay_for")
                /\ UNCHANGED result
  /\ UNCHANGED <<spawned, flow, earlier, now, attempt, pollinf, device_code, codeRequests, requestAt, codeBody,
                 issued, codeResult, presented, polls>>

\* The poll response arrives: the match returns from token(), which ends the
\* loop and its delays, or sets the interval and the loop starts the next delay.
PollResponse(r) ==
  /\ pc = "poll"
  /\ LET res == poll_token(r, now)
         m == MatchPoll(interval, res)
     IN /\ responses' = Append(responses, res)
        /\ pollBody' = r
        /\ interval' = m.interval
        /\ IF m.return
           THEN /\ pc' = "done"
                /\ result' = res
                /\ delayStart' = 0
                /\ delayFor' = 0
                /\ UNCHANGED events
           ELSE /\ pc' = "delay"
                /\ delayStart' = now
                /\ delayFor' = m.interval
                /\ events' = Append(events, "delay_for")
                /\ UNCHANGED result
  /\ UNCHANGED <<spawned, flow, earlier, now, attempt, pollinf, device_code, codeRequests, requestAt, codeBody,
                 issued, codeResult, presented, polls>>

\* The caller drops the future of token() at one of its awaits.
Drop ==
  /\ pc \in {"request_code", "delay", "poll"}
  /\ pc' = "dropped"
  /\ UNCHANGED <<spawned, flow, earlier, now, attempt, pollinf, device_code, interval, delayStart, delayFor,
                 result, history>>

Next ==
  \/ Tick
  \/ Token
  \/ \E r \in CodeResponses : CodeResponse(r)
  \/ PollRequest
  \/ \E r \in PollResponses : PollResponse(r)
  \/ Drop

Spec == Init /\ [][Next]_vars

\* ------------------------------------------------------- spawn_with_handle

\* The state of the DeviceFlow and its calls, which spawn_with_handle leaves alone.
deviceVars == <<flow, earlier, pc, now, attempt, pollinf, device_code, interval,
                delayStart, delayFor, result, history>>

\* The outputs of f.
Outputs == {"x", "y"}
NoOutput == "none"

\* spawn_with_handle(f), f being a future that is ready with `output` at its
\* poll number f_steps + 1: the channel is made, f.map(send) is spawned as a
\* task of the runtime, and the future that awaits rx is returned, not yet polled.
spawn_with_handle(f_steps, output) ==
  /\ Len(spawned) < MaxSpawns
  /\ spawned' = Append(spawned,
                  [f_steps |-> f_steps, output |-> output, task |-> "running",
                   channel |-> NoOutput, rx |-> "held", resolved |-> NoOutput,
                   resolutions |-> 0])
  /\ UNCHANGED deviceVars

\* The runtime polls the spawned task and f is not ready yet.
FStep(i) ==
  /\ spawned[i].task = "running"
  /\ spawned[i].f_steps > 0
  /\ spawned' = [spawned EXCEPT ![i].f_steps = @ - 1]
  /\ UNCHANGED deviceVars

\* A variant of FComplete that drops the result of send: `let _ = tx.send(x)`.
FComplete_IgnoresSendError(i) ==
  /\ spawned[i].task = "running"
  /\ spawned[i].f_steps = 0
  /\ spawned' = [spawned EXCEPT ![i].task = "completed",
                                ![i].channel = IF spawned[i].rx = "dropped"
                                               THEN NoOutput ELSE spawned[i].output]
  /\ UNCHANGED deviceVars

\* The runtime polls the spawned task and f is ready: the closure sends f's
\* output. send gives Err when rx has been dropped, and unwrap panics on it.
FComplete(i) ==
  /\ spawned[i].task = "running"
  /\ spawned[i].f_steps = 0
  /\ spawned' = IF spawned[i].rx = "dropped"
                THEN [spawned EXCEPT ![i].task = "panicked"]
                ELSE [spawned EXCEPT ![i].task = "completed",
                                     ![i].channel = spawned[i].output]
  /\ UNCHANGED deviceVars

\* The caller polls the returned future: rx.await is ready once the output
\* has been sent, and pending before.
HandlePoll(i) ==
  /\ spawned[i].rx \in {"held", "pending"}
  /\ spawned' = IF spawned[i].channel = NoOutput
                THEN [spawned EXCEPT ![i].rx = "pending"]
                ELSE [spawned EXCEPT ![i].rx = "resolved",
                                     ![i].resolved = spawned[i].channel,
                                     ![i].channel = NoOutput,
                                     ![i].resolutions = @ + 1]
  /\ UNCHANGED deviceVars

\* The caller drops the returned future, and rx with it, before it resolved.
HandleDrop(i) ==
  /\ spawned[i].rx \in {"held", "pending"}
  /\ spawned' = [spawned EXCEPT ![i].rx = "dropped"]
  /\ UNCHANGED deviceVars

SpawnNext ==
  \/ \E n \in 0..MaxFSteps, x \in Outputs : spawn_with_handle(n, x)
  \/ \E i \in 1..Len(spawned) : FStep(i)
  \/ \E i \in 1..Len(spawned) : FComplete(i)
  \/ \E i \in 1..Len(spawned) : HandlePoll(i)
  \/ \E i \in 1..Len(spawned) : HandleDrop(i)

SpecSpawn == Init /\ [][SpawnNext]_vars

\* One call of token() whose future the caller polls to the end, with a clock
\* that goes on and a server that answers every request.
CallOnce == attempt = 0 /\ Token

FairNext ==
  \/ Tick
  \/ CallOnce
  \/ \E r \in CodeResponses : CodeResponse(r)
  \/ PollRequest
  \/ \E r \in PollResponses : PollResponse(r)

\* Every wait elapses: the clock advances and an elapsed delay_for completes.
\* Every request gets a response.
Fairness ==
  /\ WF_vars(Tick)
  /\ WF_vars(PollRequest)
  /\ WF_vars(\E r \in CodeResponses : CodeResponse(r))
  /\ WF_vars(\E r \in PollResponses : PollResponse(r))

FairSpec == Init /\ [][FairNext]_vars /\ Fairness

\* ------------------------------------------------ properties of the driver

\* The step is the arrival of a poll response, whose result is the last of responses'.
PollAnswered == Len(responses') = Len(responses) + 1
LastResponse == responses[Len(responses)]

\* C1: a poll result that is an error other than an AuthError of kind exactly
\* authorization_pending or slow_down is the last poll result of its call of
\* token(): token() has returned that error and no poll request follows it.
C1_TerminalErrorEndsLoop ==
  \A i \in 1..Len(responses) :
    TerminalError(responses[i]) =>
      /\ i = Len(responses)
      /\ Len(polls) = i
      /\ pc = "done"
      /\ result = responses[i]

\* access_denied after two retried polls has ended the call at its third poll.
C1_Witness ==
  /\ pc = "done"
  /\ Len(responses) = 3
  /\ IsSlowDown(responses[1])
  /\ IsSlowDown(responses[2])
  /\ result = Err(AuthError("access_denied"))

\* C2: every poll answered slow_down leaves the driver waiting, and the wait
\* that follows and the interval are the interval before plus 5 seconds, more
\* than before.
C2_SlowDownAddsFive ==
  [][(PollAnswered /\ IsSlowDown(responses'[Len(responses')])) =>
       /\ pc' = "delay"
       /\ interval' = interval + 5
       /\ interval' > interval
       /\ delayFor' = interval + 5
       /\ result' = NoResult]_vars

\* Three slow_down answers in a row have grown an interval of 0 to 15 seconds.
C2_Witness ==
  /\ pc = "delay"
  /\ Len(responses) = 3
  /\ \A i \in 1..3 : IsSlowDown(responses[i])
  /\ pollinf.interval = 0
  /\ interval = 15

\* C3: every poll answered authorization_pending leaves the driver waiting with
\* the interval unchanged, and the wait that follows is that same interval.
C3_PendingKeepsInterval ==
  [][(PollAnswered /\ IsPending(responses'[Len(responses')])) =>
       /\ pc' = "delay"
       /\ interval' = interval
       /\ delayFor' = interval
       /\ delayStart' = now
       /\ result' = NoResult]_vars

\* Three authorization_pending answers in a row, the interval still the session's.
C3_Witness ==
  /\ pc = "delay"
  /\ Len(responses) = 3
  /\ \A i \in 1..3 : IsPending(responses[i])
  /\ pollinf.interval = 1
  /\ interval = 1
  /\ delayFor = 1

\* C4: a poll result that is a token is the last poll result of its call:
\* token() has returned that token, every earlier result was retryable, and the
\* poll requests sent are as many as the results, k + 1 after k retried polls.
C4_TokenEndsLoop ==
  \A i \in 1..Len(responses) :
    responses[i].tag = "Ok" =>
      /\ i = Len(responses)
      /\ Len(polls) = i
      /\ pc = "done"
      /\ result = responses[i]
      /\ \A j \in 1..(i - 1) : Retryable(responses[j])

\* Scenario A: authorization_pending, then token "a" on the second poll.
C4_Witness ==
  /\ pc = "done"
  /\ Len(polls) = 2
  /\ IsPending(responses[1])
  /\ result.tag = "Ok"
  /\ result.token.access_token = "a"
  /\ pollinf.interval = 1

\* C5: when request_code returns an error, token() has returned that error,
\* sent no poll request and not called present_user_code.
C5_CodeRequestFailure ==
  codeResult.tag = "Err" =>
    /\ pc = "done"
    /\ result = Err(codeResult.err)
    /\ polls = <<>>
    /\ responses = <<>>
    /\ presented = <<>>
    /\ events = <<"request_code">>

\* Scenario B: the code request is answered {error: "invalid_client_id"}.
C5_Witness ==
  /\ pc = "done"
  /\ codeResult.tag = "Err"
  /\ result = Err(AuthError("invalid_client_id"))

CountEvents(es, e) == Cardinality({i \in 1..Len(es) : es[i] = e})

CountRetryable(rs) == Cardinality({i \in 1..Len(rs) : Retryable(rs[i])})

\* C6: in a call whose code request succeeded, present_user_code has been
\* called exactly once, with the PollInformation request_code returned, right
\* after the code request and before the first delay and the first poll, and
\* not again whatever the polls answered; before the code request has
\* succeeded it has not been called.
C6_PresentedOnce ==
  /\ codeResult.tag = "Ok" =>
       /\ presented = <<codeResult.pollinf>>
       /\ Len(events) >= 3
       /\ events[1] = "request_code"
       /\ events[2] = "present_user_code"
       /\ events[3] = "delay_for"
       /\ CountEvents(events, "present_user_code") = 1
  /\ codeResult.tag # "Ok" =>
       /\ presented = <<>>
       /\ CountEvents(events, "present_user_code") = 0

\* Three polls answered slow_down, authorization_pending and a token: one call
\* of present_user_code.
C6_Witness ==
  /\ pc = "done"
  /\ Len(responses) = 3
  /\ IsSlowDown(responses[1])
  /\ IsPending(responses[2])
  /\ result.tag = "Ok"
  /\ Len(presented) = 1

\* C7: what token() returns is one Token or one error, and an
\* authorization_pending or slow_down received from a poll is never that
\* error; until token() returns there is no result.
C7_RetryableNeverReturned ==
  /\ pc = "done" <=> result # NoResult
  /\ result.tag = "Ok" => (result.token # NoToken /\ result.err = NoError)
  /\ result.tag = "Err" => (result.token = NoToken /\ result.err # NoError)
  /\ (result # NoResult /\ codeResult.tag = "Ok") =>
       /\ result.tag \in {"Ok", "Err"}
       /\ ~Retryable(result)
       /\ Len(responses) >= 1
       /\ result = LastResponse

\* A call that was answered slow_down and authorization_pending and returned
\* access_denied.
C7_Witness ==
  /\ pc = "done"
  /\ Len(responses) = 3
  /\ IsPending(responses[1])
  /\ IsSlowDown(responses[2])
  /\ result = Err(AuthError("access_denied"))

\* C8: within one call of token() the interval never decreases, and it is the
\* session's interval plus 5 seconds for each slow_down answered so far.
C8_IntervalGrowth ==
  /\ [](codeResult.tag = "Ok" =>
          /\ interval = pollinf.interval + 5 * CountSlowDowns(responses)
          /\ interval >= pollinf.interval)
  /\ [][attempt' = attempt => interval' >= interval]_vars

\* An interval of 1 second after two slow_down answers: 1, 6, 11.
C8_Witness ==
  /\ pc = "delay"
  /\ pollinf.interval = 1
  /\ Len(responses) = 2
  /\ IsSlowDown(responses[1])
  /\ IsSlowDown(responses[2])
  /\ interval = 11

\* C9: a poll request is sent only when a delay of the whole current interval
\* has elapsed since the delay began, the first poll too; every delay is created
\* with the current interval, and the delay after an answered poll begins at
\* the answer with the interval the answer left.
C9_PollsAfterFullWait ==
  /\ [](/\ pc = "delay" => (delayFor = interval /\ delayStart <= now)
        /\ pc = "poll" => (delayFor = interval /\ now >= delayStart + interval)
        /\ \A i \in 1..Len(events) :
             events[i] = "poll_token" => (i > 1 /\ events[i - 1] = "delay_for"))
  /\ [][/\ Len(polls') = Len(polls) + 1 =>
             (delayFor = interval /\ now >= delayStart + interval)
        /\ (PollAnswered /\ pc' = "delay") =>
             (delayStart' = now /\ delayFor' = interval')]_vars

\* The second poll is sent 6 seconds after the first was answered slow_down.
C9_Witness ==
  /\ pc = "poll"
  /\ Len(polls) = 2
  /\ IsSlowDown(responses[1])
  /\ pollinf.interval = 1
  /\ interval = 6
  /\ now = delayStart + 6

\* C10: at most one poll request of a call is unanswered at any time, a poll
\* is sent only after the poll before it was answered and a delay was begun,
\* and every delay but the first was begun by a retried answer.
C10_SerialPolls ==
  /\ Len(polls) - Len(responses) \in {0, 1}
  /\ pc = "poll" => Len(polls) = Len(responses) + 1
  /\ pc \in {"delay", "done"} => Len(polls) = Len(responses)
  /\ \A i \in 2..Len(events) :
       events[i] = "poll_token" => events[i - 1] = "delay_for"
  /\ codeResult.tag = "Ok" =>
       CountEvents(events, "delay_for") = 1 + CountRetryable(responses)
  /\ CountEvents(events, "poll_token") = Len(polls)

\* The third poll is in flight, the two before it were answered.
C10_Witness ==
  /\ pc = "poll"
  /\ Len(polls) = 3
  /\ Len(responses) = 2

\* ------------------------------------- properties of the session and the calls

\* C11: what present_user_code is given holds user_code, verification_url,
\* expires_at and interval and nothing else, and none of them is the device
\* code; the device code request_code returned is the `code` of every poll
\* request of the call.
C11_DeviceCodeNotPresented ==
  /\ \A i \in 1..Len(presented) :
       /\ DOMAIN presented[i] = {"user_code", "verification_url", "expires_at", "interval"}
       /\ presented[i].user_code \notin DeviceCodes
       /\ presented[i].verification_url \notin DeviceCodes
  /\ codeResult.tag = "Ok" =>
       /\ codeResult.device_code \in DeviceCodes
       /\ device_code = codeResult.device_code
  /\ \A i \in 1..Len(polls) : polls[i] = codeResult.device_code

\* The delegate was shown the session of device code d1 and two polls carried d1.
C11_Witness ==
  /\ Len(presented) = 1
  /\ presented[1].user_code = "u"
  /\ codeResult.device_code = "d1"
  /\ polls = <<"d1", "d1">>

\* A response body that holds an `error` and the fields of a Token.
BothShaped(b) ==
  b.transport /\ b.wellformed /\ b.error # Absent /\ b.access_token # Absent

\* C12: a poll response that holds an `error` beside the fields of a Token is
\* the AuthError of that `error`: the driver retries it when the error is
\* authorization_pending or slow_down and returns that error otherwise, and
\* token() does not return the token.
C12_ErrorTakesPrecedence ==
  BothShaped(pollBody) =>
    /\ Len(responses) >= 1
    /\ LastResponse = Err(AuthError(pollBody.error))
    /\ result.tag # "Ok"
    /\ IF pollBody.error \in {"authorization_pending", "slow_down"}
       THEN pc \in {"delay", "dropped"} /\ result = NoResult
       ELSE pc = "done" /\ result = Err(AuthError(pollBody.error))

\* A poll answered {error: access_denied, access_token: a, ...} returned access_denied.
C12_Witness ==
  /\ BothShaped(pollBody)
  /\ pollBody.error = "access_denied"
  /\ pollBody.access_token = "a"
  /\ pc = "done"
  /\ result = Err(AuthError("access_denied"))

\* A code response that decodes to a JsonData.
ValidCodeBody(b) ==
  b.transport /\ b.wellformed /\ b.error = Absent /\ b.device_code # Absent

Magnitude(x) == IF x < 0 THEN -x ELSE x

\* C13: for every i64 interval of a valid code response, negative ones and the
\* least i64 included, request_code returns a session whose interval is the
\* absolute value of that interval in seconds.
C13_IntervalIsAbs ==
  ValidCodeBody(codeBody) =>
    /\ pc # "panicked"
    /\ codeResult.tag = "Ok"
    /\ codeResult.pollinf.interval = Magnitude(codeBody.interval)
    /\ pollinf.interval = Magnitude(codeBody.interval)

\* The lifetime a code response declares: expires_in, or 3600 seconds without it.
Lifetime(b) == IF b.expires_in = None THEN 3600 ELSE b.expires_in

\* The step at which request_code returns a session.
SessionReturned == pc = "request_code" /\ codeResult'.tag = "Ok"

\* C14 as stated: the session's expires_at is the time the code request was
\* sent plus expires_in, or plus 3600 seconds without expires_in.
C14_ExpiresAtFromRequestTime ==
  [][SessionReturned => pollinf'.expires_at = requestAt + Lifetime(codeBody')]_vars

\* C14 amended: the session's expires_at is the time at which the response has
\* arrived and is decoded, never before the time the request was sent, plus
\* expires_in, or plus 3600 seconds without expires_in.
C14_ExpiresAtFromDecodeTime ==
  /\ [][SessionReturned =>
          /\ pollinf'.expires_at = now + Lifetime(codeBody')
          /\ codeResult'.pollinf = pollinf'
          /\ requestAt <= now]_vars
  /\ []((codeResult.tag = "Ok" /\ responses = <<>>) =>
          pollinf.expires_at = delayStart + Lifetime(codeBody))

\* The first call's code request, sent at 0, was answered at 2 with expires_in 3:
\* the session expires at 5.
C14_Witness ==
  /\ attempt = 1
  /\ codeResult.tag = "Ok"
  /\ responses = <<>>
  /\ codeBody.expires_in = 3
  /\ delayStart = 2
  /\ pollinf.expires_at = 5

\* The suspension points of token(): the code request, the delay, a poll request.
Suspended == pc \in {"request_code", "delay", "poll"}

\* C15: the caller can drop the future of token() at each suspension point, and
\* once it is dropped the call sends no request, presents nothing, and changes
\* nothing until token() is called again.
C15_DropCancels ==
  /\ [][Suspended => ENABLED Drop]_vars
  /\ [][(pc = "dropped" /\ attempt' = attempt) =>
          /\ pc' = "dropped"
          /\ codeRequests' = codeRequests
          /\ polls' = polls
          /\ presented' = presented
          /\ responses' = responses
          /\ events' = events
          /\ result' = result]_vars
  /\ [][(Suspended /\ pc' = "dropped") =>
          /\ codeRequests' = codeRequests
          /\ polls' = polls
          /\ events' = events
          /\ result' = NoResult]_vars

\* The future was dropped while its second poll was unanswered.
C15_Witness ==
  /\ pc = "dropped"
  /\ Len(polls) = 2
  /\ Len(responses) = 1
  /\ result = NoResult

\* The session of the call has a code and its expires_at has passed.
Expired == codeResult.tag = "Ok" /\ now >= pollinf.expires_at

\* C16: the driver never compares the clock with expires_at. After expires_at
\* a poll is sent as soon as its delay has elapsed, a retryable answer leads to
\* the next delay as before, and the call ends only when a poll is answered
\* with a token or a non-retryable error, expired_token from the server being
\* one: that answer is the result.
C16_ExpiryNotChecked ==
  /\ [][(Expired /\ pc = "delay" /\ now >= delayStart + delayFor
            /\ Len(polls) < MaxPolls) => ENABLED PollRequest]_vars
  /\ [][(Expired /\ pc \in {"delay", "poll"} /\ attempt' = attempt) =>
          /\ pc' \in {"delay", "poll", "done", "dropped"}
          /\ pc' = "done" =>
               /\ PollAnswered
               /\ ~Retryable(responses'[Len(responses')])
               /\ result' = responses'[Len(responses')]
          /\ (PollAnswered /\ Retryable(responses'[Len(responses')])) =>
               (pc' = "delay" /\ result' = NoResult)
          /\ pollinf' = pollinf]_vars

\* A session of 3 seconds and an interval of 1 second. The first poll was
\* answered slow_down, so the second poll came 7 seconds or more after the
\* session began, when it had expired; it was answered authorization_pending,
\* the wait and the third poll followed all the same, and the server's
\* expired_token ended the call.
C16_Witness ==
  /\ pc = "done"
  /\ codeBody.expires_in = 3
  /\ pollinf.interval = 1
  /\ Len(responses) = 3
  /\ IsSlowDown(responses[1])
  /\ IsPending(responses[2])
  /\ now > pollinf.expires_at
  /\ result = Err(AuthError("expired_token"))

\* The device codes the server issued before the latest one.
StaleDeviceCodes == {DeviceCode(n) : n \in 1..(issued - 1)}

\* C17: every poll request of a call carries the device_code that the code
\* request of this same call returned, the latest the server issued, and never
\* a device_code of an earlier call; without a code of its own a call polls
\* nothing.
C17_PollsCarryOwnCode ==
  /\ polls # <<>> => (codeResult.tag = "Ok" /\ codeBody.device_code = DeviceCode(issued))
  /\ \A i \in 1..Len(polls) :
       /\ polls[i] = codeResult.device_code
       /\ polls[i] = codeBody.device_code
       /\ polls[i] \notin StaleDeviceCodes
  /\ codeResult.tag # "Ok" => device_code = Absent

\* The second call polls twice with the second code the server issued.
C17_Witness ==
  /\ attempt = 2
  /\ issued = 2
  /\ polls = <<DeviceCode(2), DeviceCode(2)>>
  /\ StaleDeviceCodes = {DeviceCode(1)}

AllRetryable == \A i \in 1..Len(responses) : Retryable(responses[i])

\* The call has returned or panicked, or it waits for a poll that the model's
\* bounds leave out: the poll after the last one counted, or one due after the
\* last second of the clock.
Ended ==
  \/ pc \in {"done", "panicked"}
  \/ pc = "delay" /\ (Len(polls) = MaxPolls \/ delayStart + delayFor > MaxTime)

C20_SpawnWithHandle ==
  /\ [](\A i \in 1..Len(spawned) :
         LET h == spawned[i] IN
         /\ h.task \in {"running", "completed", "panicked"}
         /\ h.resolutions <= 1
         /\ h.rx = "resolved" <=> h.resolutions = 1
         /\ h.rx = "resolved" => (h.resolved = h.output /\ h.task = "completed")
         /\ h.rx # "resolved" => h.resolved = NoOutput
         /\ h.task # "running" => h.f_steps = 0
         /\ h.task = "panicked" => (h.rx = "dropped" /\ h.channel = NoOutput)
         /\ h.channel # NoOutput => (h.channel = h.output /\ h.task = "completed"))
  /\ [][/\ Len(spawned') = Len(spawned) + 1 =>
             (spawned'[Len(spawned')].task = "running"
                /\ spawned'[Len(spawned')].rx = "held")
        /\ \A i \in 1..Len(spawned) :
             /\ spawned[i].task = "running" =>
                  (ENABLED FStep(i) \/ ENABLED FComplete(i))
             /\ (spawned[i].task = "running" /\ spawned'[i].task # "running") =>
                  (spawned'[i].task = "panicked" <=> spawned[i].rx = "dropped")
             /\ spawned'[i].output = spawned[i].output]_vars

\* Two calls. The first future resolved to the output of its f; the second was
\* dropped before its f was ready, and its task ran f to the end and panicked
\* at the send.
C20_Witness ==
  /\ Len(spawned) = 2
  /\ spawned[1] = [f_steps |-> 0, output |-> "x", task |-> "completed",
                   channel |-> NoOutput, rx |-> "resolved", resolved |-> "x",
                   resolutions |-> 1]
  /\ spawned[2] = [f_steps |-> 0, output |-> "y", task |-> "panicked",
                   channel |-> NoOutput, rx |-> "dropped", resolved |-> NoOutput,
                   resolutions |-> 0]

====
